---- MODULE Spec2Model ----
(***************************************************************************)
(* Console file explorer (src/Main.cpp): one session holding the current   *)
(* directory `cur`, a command loop, and nine commands that map onto        *)
(* std::filesystem primitives.  The file system is modelled as a tree of   *)
(* entries (regular files with content, directories with a permission      *)
(* mode and a mount flag, symbolic links with an absolute target); the     *)
(* primitives follow POSIX / libstdc++ behaviour, including the errors     *)
(* they raise.                                                             *)
(***************************************************************************)
EXTENDS Integers, Sequences, FiniteSets, TLC

\* ---------------------------------------------------------------- bounds
MaxDepth == 3        \* deepest entry the model creates (deeper creation fails)
MaxOps == 2          \* commands read in one session
MaxLinkHops == 2     \* symbolic links followed in one resolution (ELOOP after)

\* Directory iteration order is file-system defined; the model fixes one.
NameList == <<"ab", "b", "Ab">>
Names == {NameList[i] : i \in 1..Len(NameList)}
Needles == {"a", "b", "Ab"}

\* ----------------------------------------------------------------- fs::path
\* A path is its root-directory flag and its sequence of components.
MkPath(r, c) == [root |-> r, comps |-> c]
Abs(c) == MkPath(TRUE, c)
Rel(c) == MkPath(FALSE, c)
EmptyPath == MkPath(FALSE, <<>>)

is_absolute(p) == p.root

\* operator/ : an absolute right operand replaces the left one.
Join(a, b) == IF is_absolute(b) THEN b ELSE MkPath(a.root, a.comps \o b.comps)

Front(s) == SubSeq(s, 1, Len(s) - 1)
Last(s) == s[Len(s)]

\* A faulty parent_path: the last component is cut off together with the
\* separator before it, so that "/ab" becomes "".
parent_path_dropping_root(p) ==
    IF p.comps = <<>> THEN p
    ELSE IF Len(p.comps) = 1 THEN MkPath(FALSE, <<>>)
    ELSE MkPath(p.root, Front(p.comps))

\* path::parent_path(): *this when there is no relative part, otherwise the
\* path without its last component.
parent_path(p) ==
    IF p.comps = <<>> THEN p ELSE MkPath(p.root, Front(p.comps))

\* path::has_parent_path(): the parent path is not empty.
has_parent_path(p) ==
    IF p.comps = <<>> THEN p.root ELSE p.root \/ Len(p.comps) >= 2

\* path::filename(): the last component ("" for a root).
filename(p) == IF p.comps = <<>> THEN "" ELSE Last(p.comps)

\* std::string::find(needle) != npos
Contains(s, n) ==
    \E i \in 1..(Len(s) - Len(n) + 1) : SubSeq(s, i, i + Len(n) - 1) = n

\* ------------------------------------------------------------- file system
\* fs is a function from the keys (component sequences) of the existing
\* entries to nodes; the root <<>> is always a directory.
None == [k |-> "none", c |-> <<>>, m |-> "", mnt |-> FALSE, t |-> <<>>]
File(c) == [k |-> "file", c |-> c, m |-> "", mnt |-> FALSE, t |-> <<>>]
Dir(m) == [k |-> "dir", c |-> <<>>, m |-> m, mnt |-> FALSE, t |-> <<>>]
Mount(m) == [k |-> "dir", c |-> <<>>, m |-> m, mnt |-> TRUE, t |-> <<>>]
Link(t) == [k |-> "link", c |-> <<>>, m |-> "", mnt |-> FALSE, t |-> t]

Node(f, k) == IF k \in DOMAIN f THEN f[k] ELSE None

\* Permission bits of a directory mode: "rwx", "r-x" (read-only), "---".
CanRead(n) == n.m \in {"rwx", "r-x"}
CanWrite(n) == n.m = "rwx"
CanSearch(n) == n.m \in {"rwx", "r-x"}

IsPrefix(a, b) == Len(a) <= Len(b) /\ SubSeq(b, 1, Len(a)) = a
Children(f, d) == {k \in DOMAIN f : Len(k) = Len(d) + 1 /\ IsPrefix(d, k)}
Subtree(f, d) == {k \in DOMAIN f : IsPrefix(d, k)}

Put(f, k, n) == [x \in DOMAIN f \cup {k} |-> IF x = k THEN n ELSE f[x]]
Drop(f, ks) == [x \in DOMAIN f \ ks |-> f[x]]

Ok(k) == [e |-> "ok", k |-> k]
Err(e) == [e |-> e, k |-> <<>>]

\* Path resolution (stat / lstat): walks `rest` from the resolved directory
\* `at`; every directory on the way needs search permission; a symbolic
\* link is followed unless it is the last component of an lstat.
RECURSIVE Walk(_, _, _, _, _)
Walk(f, at, rest, follow, fuel) ==
    IF rest = <<>> THEN Ok(at)
    ELSE LET d == Node(f, at) IN
         IF d.k # "dir" THEN Err("ENOTDIR")
         ELSE IF ~CanSearch(d) THEN Err("EACCES")
         ELSE LET c == Append(at, Head(rest))
                  n == Node(f, c)
              IN IF n.k = "none" THEN Err("ENOENT")
                 ELSE IF n.k = "link" /\ (follow \/ Len(rest) > 1)
                      THEN IF fuel = 0 THEN Err("ELOOP")
                           ELSE Walk(f, <<>>, n.t \o Tail(rest), follow, fuel - 1)
                 ELSE Walk(f, c, Tail(rest), follow, fuel)

Stat(f, k) == Walk(f, <<>>, k, TRUE, MaxLinkHops)
LStat(f, k) == Walk(f, <<>>, k, FALSE, MaxLinkHops)

NotFound(e) == e \in {"ENOENT", "ENOTDIR"}

\* fs::status(p): the type of the entry p resolves to, "not_found", or a
\* thrown filesystem_error for any other error.
status(f, k) ==
    LET r == Stat(f, k) IN
    IF r.e = "ok" THEN [exc |-> FALSE, type |-> f[r.k].k]
    ELSE IF NotFound(r.e) THEN [exc |-> FALSE, type |-> "not_found"]
    ELSE [exc |-> TRUE, type |-> "none"]

\* fs::exists(p), fs::is_directory(p), fs::is_regular_file(p): throwing forms.
exists(f, k) == LET s == status(f, k) IN [exc |-> s.exc, v |-> ~s.exc /\ s.type # "not_found"]
is_directory(f, k) == LET s == status(f, k) IN [exc |-> s.exc, v |-> s.type = "dir"]
is_regular_file(f, k) == LET s == status(f, k) IN [exc |-> s.exc, v |-> s.type = "file"]

\* fs::canonical(p): the resolved absolute path (the caller checked existence).
canonical(f, k) == Abs(Stat(f, k).k)

\* ------------------------------------------------------------------ state
VARIABLES fs, cur, screen, out, pc, ops
vars == <<fs, cur, screen, out, pc, ops>>

\* ---------------------------------------------------------------- list_dir
\* One row per immediate child, in iteration order: TYPE, SIZE(B), NAME.
\* (PERMS and MODIFIED are presentation only and are left out.)  A status
\* query that throws ends the loop in the outer handler: the rows printed so
\* far stay, followed by "Error listing directory".
\* st is the status of the entry (followed), lnk whether the entry itself is
\* a symbolic link: is_directory() is asked first, is_symlink() second.
EntryType(st, lnk) ==
    IF st.type = "dir" THEN "[DIR]"
    ELSE IF lnk THEN "[LNK]"
    ELSE "[FILE]"

\* entry.file_size() for a regular file (followed), 0 otherwise.
EntrySize(f, st, r) ==
    IF st.type = "file" THEN Len(f[r.k].c) ELSE 0

Row(f, r, lnk, name) ==
    LET st == IF r.e = "ok" THEN [exc |-> FALSE, type |-> f[r.k].k]
              ELSE IF NotFound(r.e) THEN [exc |-> FALSE, type |-> "not_found"]
              ELSE [exc |-> TRUE, type |-> "none"]
    IN [exc |-> st.exc,
        row |-> [type |-> EntryType(st, lnk), size |-> EntrySize(f, st, r), name |-> name]]

Cons(e, rest) ==
    IF e.exc THEN [err |-> TRUE, rows |-> <<>>]
    ELSE [err |-> rest.err, rows |-> <<e.row>> \o rest.rows]

RECURSIVE ListRows(_, _, _, _)
ListRows(f, d, pkey, i) ==
    IF i > Len(NameList) THEN [err |-> FALSE, rows |-> <<>>]
    ELSE IF Append(d, NameList[i]) \notin DOMAIN f THEN ListRows(f, d, pkey, i + 1)
    ELSE LET e == Row(f, Stat(f, Append(pkey, NameList[i])),
                      f[Append(d, NameList[i])].k = "link", NameList[i])
         IN IF e.exc THEN [err |-> TRUE, rows |-> <<>>]
            ELSE Cons(e, ListRows(f, d, pkey, i + 1))

\* opendir: the path must resolve to a readable directory.
OpenDir(f, k) ==
    LET r == Stat(f, k) IN
    IF r.e # "ok" THEN r
    ELSE IF f[r.k].k # "dir" THEN Err("ENOTDIR")
    ELSE IF ~CanRead(f[r.k]) THEN Err("EACCES")
    ELSE r

list_dir(f, p) ==
    LET o == IF is_absolute(p) THEN OpenDir(f, p.comps) ELSE Err("ENOENT") IN
    IF o.e # "ok" THEN [err |-> TRUE, rows |-> <<>>]
    ELSE ListRows(f, o.k, p.comps, 1)

\* ------------------------------------------------------ mutating primitives
Res(ok, f) == [ok |-> ok, fs |-> f]

\* open(p, O_WRONLY | O_CREAT | O_TRUNC), as std::ofstream does: the last
\* component is followed when it is a symbolic link; a missing entry is
\* created empty in a writable directory; an existing file is truncated.
RECURSIVE OpenCreate(_, _, _)
OpenCreate(f, k, fuel) ==
    IF k = <<>> THEN [ok |-> FALSE, fs |-> f, k |-> <<>>]
    ELSE LET pr == Stat(f, Front(k))
             fail == [ok |-> FALSE, fs |-> f, k |-> <<>>]
         IN IF pr.e # "ok" THEN fail
            ELSE LET d == f[pr.k]
                     c == Append(pr.k, Last(k))
                     n == Node(f, c)
                 IN IF d.k # "dir" \/ ~CanSearch(d) \/ Len(c) > MaxDepth THEN fail
                    ELSE IF n.k = "none"
                         THEN IF CanWrite(d)
                              THEN [ok |-> TRUE, fs |-> Put(f, c, File(<<>>)), k |-> c]
                              ELSE fail
                    ELSE IF n.k = "link"
                         THEN IF fuel = 0 THEN fail ELSE OpenCreate(f, n.t, fuel - 1)
                    ELSE IF n.k = "file"
                         THEN [ok |-> TRUE, fs |-> Put(f, c, File(<<>>)), k |-> c]
                    ELSE fail

\* mkdir(p): the parent must resolve to a writable directory and the entry
\* (not followed) must not exist; the new directory has mode m.
MkDir(f, k, m) ==
    IF k = <<>> THEN Res(FALSE, f)
    ELSE LET pr == Stat(f, Front(k)) IN
         IF pr.e # "ok" THEN Res(FALSE, f)
         ELSE LET d == f[pr.k]
                  c == Append(pr.k, Last(k))
              IN IF d.k # "dir" \/ ~CanSearch(d) \/ ~CanWrite(d) THEN Res(FALSE, f)
                 ELSE IF Len(c) > MaxDepth \/ c \in DOMAIN f THEN Res(FALSE, f)
                 ELSE Res(TRUE, Put(f, c, Dir(m)))

\* fs::create_directories(p): the deepest prefix whose status is not
\* "not found" must be a directory; every missing prefix below it is then
\* created in turn.  An error throws.
RECURSIVE DeepestKnown(_, _, _)
DeepestKnown(f, k, j) ==
    IF j = 0 \/ status(f, SubSeq(k, 1, j)).type # "not_found" THEN j
    ELSE DeepestKnown(f, k, j - 1)

RECURSIVE MkDirsFrom(_, _, _)
MkDirsFrom(f, k, i) ==
    IF i > Len(k) THEN Res(TRUE, f)
    ELSE LET r == MkDir(f, SubSeq(k, 1, i), "rwx") IN
         IF r.ok THEN MkDirsFrom(r.fs, k, i + 1) ELSE Res(FALSE, r.fs)

create_directories(f, k) ==
    LET j == DeepestKnown(f, k, Len(k))
        st == status(f, SubSeq(k, 1, j))
    IN IF st.type # "dir" THEN Res(FALSE, f) ELSE MkDirsFrom(f, k, j + 1)

\* unlink(p): removes the entry itself (a link is not followed).
Unlink(f, k) ==
    IF k = <<>> THEN Res(FALSE, f)
    ELSE LET pr == Stat(f, Front(k)) IN
         IF pr.e # "ok" THEN Res(FALSE, f)
         ELSE LET d == f[pr.k]
                  c == Append(pr.k, Last(k))
              IN IF d.k # "dir" \/ ~CanSearch(d) \/ ~CanWrite(d) THEN Res(FALSE, f)
                 ELSE IF c \notin DOMAIN f \/ f[c].k = "dir" THEN Res(FALSE, f)
                 ELSE Res(TRUE, Drop(f, {c}))

\* rmdir of the resolved directory c: empty, not a mount point, not the root,
\* in a writable parent.
RmDir(f, c) ==
    IF c = <<>> \/ f[c].mnt \/ Children(f, c) # {} THEN Res(FALSE, f)
    ELSE IF ~CanWrite(f[Front(c)]) THEN Res(FALSE, f)
    ELSE Res(TRUE, Drop(f, {c}))

\* fs::remove_all on the resolved directory c: the children are removed in
\* the order the directory yields them (every order is an outcome), then the
\* directory itself.  n counts the entries removed.  The first error throws
\* and leaves what was removed so far removed.
Cnt(ok, f, n) == [ok |-> ok, fs |-> f, n |-> n]

RECURSIVE RemoveTree(_, _)
RECURSIVE RemoveChildren(_, _)
RemoveEntry(f, ch) ==
    IF f[ch].k = "dir" THEN RemoveTree(f, ch)
    ELSE IF CanWrite(f[Front(ch)]) THEN {Cnt(TRUE, Drop(f, {ch}), 1)}
    ELSE {Cnt(FALSE, f, 0)}

RemoveChildren(f, pending) ==
    IF pending = {} THEN {Cnt(TRUE, f, 0)}
    ELSE UNION {
           UNION { IF r.ok
                   THEN {Cnt(q.ok, q.fs, q.n + r.n) :
                            q \in RemoveChildren(r.fs, pending \ {ch})}
                   ELSE {r} : r \in RemoveEntry(f, ch) } : ch \in pending }

RemoveTree(f, c) ==
    IF ~CanRead(f[c]) THEN {Cnt(FALSE, f, 0)}
    ELSE UNION { IF r.ok
                 THEN LET d == RmDir(r.fs, c) IN {Cnt(d.ok, d.fs, r.n + 1)}
                 ELSE {r} : r \in RemoveChildren(f, Children(f, c)) }

\* fs::remove_all(p): a last component that is a symbolic link is removed
\* as a link, not followed.
remove_all(f, k) ==
    LET l == LStat(f, k) IN
    IF l.e # "ok" THEN {Cnt(FALSE, f, 0)}
    ELSE IF f[l.k].k = "dir" THEN RemoveTree(f, l.k)
    ELSE LET u == Unlink(f, k) IN {Cnt(u.ok, u.fs, 1)}

\* fs::copy_file(from, to, overwrite_existing): from must resolve to a
\* regular file; an existing regular file at to (other than from itself) is
\* overwritten, a missing one is created; anything else throws.
copy_file(f, from, to) ==
    LET s == Stat(f, from)
        t == Stat(f, to)
    IN IF s.e # "ok" \/ Node(f, s.k).k # "file" THEN Res(FALSE, f)
       ELSE IF t.e = "ok"
            THEN IF f[t.k].k # "file" \/ t.k = s.k THEN Res(FALSE, f)
                 ELSE Res(TRUE, Put(f, t.k, File(f[s.k].c)))
       ELSE IF ~NotFound(t.e) THEN Res(FALSE, f)
       ELSE LET o == OpenCreate(f, to, MaxLinkHops) IN
            IF o.ok THEN Res(TRUE, Put(o.fs, o.k, File(f[s.k].c))) ELSE Res(FALSE, f)

\* fs::copy(from, to, recursive | overwrite_existing).  Both paths are
\* followed (no symlink option is set).  A directory is created at to with
\* the mode of from when missing, then every entry of from is copied in the
\* order the directory yields them (every order is an outcome); a regular
\* file met where to is a directory is copied into that directory.
RECURSIVE Copy(_, _, _)
RECURSIVE CopyChildren(_, _, _, _)
CopyChildren(f, from, to, pending) ==
    IF pending = {} THEN {Res(TRUE, f)}
    ELSE UNION {
           UNION { IF r.ok THEN CopyChildren(r.fs, from, to, pending \ {n}) ELSE {r} :
                     r \in Copy(f, Append(from, n), Append(to, n)) } : n \in pending }

Copy(f, from, to) ==
    LET s == Stat(f, from)
        t == Stat(f, to)
    IN IF s.e # "ok" THEN {Res(FALSE, f)}
       ELSE IF t.e # "ok" /\ ~NotFound(t.e) THEN {Res(FALSE, f)}
       ELSE IF t.e = "ok" /\ t.k = s.k THEN {Res(FALSE, f)}
       ELSE IF f[s.k].k = "dir" /\ t.e = "ok" /\ f[t.k].k = "file" THEN {Res(FALSE, f)}
       ELSE IF f[s.k].k = "file"
            THEN IF t.e = "ok" /\ f[t.k].k = "dir"
                 THEN {copy_file(f, from, Append(to, Last(from)))}
                 ELSE {copy_file(f, from, to)}
       ELSE LET made == IF t.e = "ok" THEN Res(TRUE, f) ELSE MkDir(f, to, f[s.k].m) IN
            IF ~made.ok \/ ~CanRead(f[s.k]) THEN {Res(FALSE, made.fs)}
            ELSE CopyChildren(made.fs, from, to,
                              {Last(c) : c \in Children(made.fs, s.k)})

\* The volume an entry of directory d lives on: the nearest mount point at
\* or above d.
RECURSIVE Volume(_, _)
Volume(f, d) == IF d = <<>> \/ f[d].mnt THEN d ELSE Volume(f, Front(d))

\* rename(from, to): the last components are not followed.  One step: the
\* entry (with its subtree) moves, replacing a file or an empty directory.
\* A move that would put an entry deeper than MaxDepth is refused (the
\* model's path-length limit).
Rename(f, from, to) ==
    IF from = <<>> \/ to = <<>> THEN Res(FALSE, f)
    ELSE LET pf == Stat(f, Front(from))
             pt == Stat(f, Front(to))
         IN IF pf.e # "ok" \/ pt.e # "ok" THEN Res(FALSE, f)
            ELSE LET df == f[pf.k]
                     dt == f[pt.k]
                     sk == Append(pf.k, Last(from))
                     dk == Append(pt.k, Last(to))
                     moved == [x \in (DOMAIN f \ (Subtree(f, sk) \cup Subtree(f, dk)))
                                     \cup {dk \o SubSeq(y, Len(sk) + 1, Len(y)) :
                                              y \in Subtree(f, sk)} |->
                                 IF IsPrefix(dk, x)
                                 THEN f[sk \o SubSeq(x, Len(dk) + 1, Len(x))]
                                 ELSE f[x]]
                 IN IF df.k # "dir" \/ dt.k # "dir" \/ ~CanSearch(df) \/ ~CanSearch(dt)
                    THEN Res(FALSE, f)
                    ELSE IF sk \notin DOMAIN f THEN Res(FALSE, f)
                    ELSE IF Volume(f, pf.k) # Volume(f, pt.k) THEN Res(FALSE, f)
                    ELSE IF f[sk].mnt \/ Node(f, dk).mnt THEN Res(FALSE, f)
                    ELSE IF sk = dk THEN Res(TRUE, f)
                    ELSE IF ~CanWrite(df) \/ ~CanWrite(dt) THEN Res(FALSE, f)
                    ELSE IF f[sk].k = "dir" /\ IsPrefix(sk, dk) THEN Res(FALSE, f)
                    ELSE IF f[sk].k = "dir" /\ dk \in DOMAIN f
                            /\ (f[dk].k # "dir" \/ Children(f, dk) # {})
                         THEN Res(FALSE, f)
                    ELSE IF f[sk].k = "dir" /\ pf.k # pt.k /\ ~CanWrite(f[sk])
                         THEN Res(FALSE, f)
                    ELSE IF f[sk].k # "dir" /\ Node(f, dk).k = "dir" THEN Res(FALSE, f)
                    ELSE IF \E x \in DOMAIN moved : Len(x) > MaxDepth THEN Res(FALSE, f)
                    ELSE Res(TRUE, moved)

\* --------------------------------------------------------------- operations
\* Each returns the file system it leaves and what it prints.
Rep(f, msg, n) == [fs |-> f, msg |-> msg, n |-> n]

\* A faulty create_file: the existence test is left out, so an existing
\* file is opened for writing and truncated.
create_file_unguarded(f, k) ==
    LET o == OpenCreate(f, k, MaxLinkHops) IN
    IF ~o.ok THEN Rep(f, "Failed to create file.", 0)
    ELSE Rep(o.fs, "File created", 0)

create_file(f, k) ==
    LET ex == exists(f, k) IN
    IF ex.exc THEN Rep(f, "Error", 0)
    ELSE IF ex.v THEN Rep(f, "Path already exists.", 0)
    ELSE LET o == OpenCreate(f, k, MaxLinkHops) IN
         IF ~o.ok THEN Rep(f, "Failed to create file.", 0)
         ELSE Rep(o.fs, "File created", 0)

\* A faulty create_directory_path: the outcome of create_directories is
\* not looked at and success is printed regardless.
create_directory_path_unchecked(f, k) ==
    LET ex == exists(f, k) IN
    IF ex.exc THEN Rep(f, "Error", 0)
    ELSE IF ex.v THEN Rep(f, "Path already exists.", 0)
    ELSE Rep(create_directories(f, k).fs, "Directory created", 0)

create_directory_path(f, k) ==
    LET ex == exists(f, k) IN
    IF ex.exc THEN Rep(f, "Error", 0)
    ELSE IF ex.v THEN Rep(f, "Path already exists.", 0)
    ELSE LET r == create_directories(f, k) IN
         IF r.ok THEN Rep(r.fs, "Directory created", 0) ELSE Rep(r.fs, "Error", 0)

\* A faulty delete_path: the directory itself is left out of the count.
delete_path_contents_only(f, k) ==
    LET ex == exists(f, k) IN
    IF ex.exc THEN {Rep(f, "Error", 0)}
    ELSE IF ~ex.v THEN {Rep(f, "Path does not exist.", 0)}
    ELSE IF is_directory(f, k).v
    THEN {IF r.ok THEN Rep(r.fs, "Deleted entries", IF r.n > 0 THEN r.n - 1 ELSE 0)
                  ELSE Rep(r.fs, "Error", 0) :
             r \in remove_all(f, k)}
    ELSE LET u == Unlink(f, k) IN
         {IF u.ok THEN Rep(u.fs, "Deleted entries", 1) ELSE Rep(f, "Error", 0)}

delete_path(f, k) ==
    LET ex == exists(f, k) IN
    IF ex.exc THEN {Rep(f, "Error", 0)}
    ELSE IF ~ex.v THEN {Rep(f, "Path does not exist.", 0)}
    ELSE IF is_directory(f, k).v
    THEN {IF r.ok THEN Rep(r.fs, "Deleted entries", r.n) ELSE Rep(r.fs, "Error", 0) :
             r \in remove_all(f, k)}
    ELSE LET u == Unlink(f, k) IN
         {IF u.ok THEN Rep(u.fs, "Deleted entries", 1) ELSE Rep(f, "Error", 0)}

copy_path(f, from, to) ==
    LET ex == exists(f, from) IN
    IF ex.exc THEN {Rep(f, "Error", 0)}
    ELSE IF ~ex.v THEN {Rep(f, "Source does not exist.", 0)}
    ELSE {IF r.ok THEN Rep(r.fs, "Copied to", 0) ELSE Rep(r.fs, "Error", 0) :
             r \in IF is_directory(f, from).v THEN Copy(f, from, to)
                   ELSE {copy_file(f, from, to)}}

\* A faulty move_path: the entries are copied to the new name and the old
\* ones are never removed.
move_path_keeping_source(f, from, to) ==
    LET r == Rename(f, from, to) IN
    IF r.ok
    THEN Rep([x \in DOMAIN r.fs \cup DOMAIN f |->
                 IF x \in DOMAIN r.fs THEN r.fs[x] ELSE f[x]], "Moved/Renamed to", 0)
    ELSE Rep(f, "Error", 0)

move_path(f, from, to) ==
    LET r == Rename(f, from, to) IN
    IF r.ok THEN Rep(r.fs, "Moved/Renamed to", 0) ELSE Rep(f, "Error", 0)

\* A faulty walk: a plain directory_iterator, which yields the entries of
\* root and enters no subdirectory.
RECURSIVE SearchDir_flat(_, _, _, _, _)
SearchDir_flat(f, d, pkey, i, needle) ==
    IF i > Len(NameList) THEN <<>>
    ELSE LET c == Append(d, NameList[i])
             path == Append(pkey, NameList[i])
             here == IF Contains(NameList[i], needle) THEN <<path>> ELSE <<>>
         IN IF c \notin DOMAIN f THEN SearchDir_flat(f, d, pkey, i + 1, needle)
            ELSE here \o SearchDir_flat(f, d, pkey, i + 1, needle)

\* recursive_directory_iterator(root, skip_permission_denied): every entry
\* below root in pre-order; a directory that is not a symbolic link is
\* entered, unless opening it is denied, in which case it is skipped.  Each
\* entry whose filename contains needle is printed.
RECURSIVE SearchDir(_, _, _, _, _)
SearchDir(f, d, pkey, i, needle) ==
    IF i > Len(NameList) THEN <<>>
    ELSE LET c == Append(d, NameList[i])
             path == Append(pkey, NameList[i])
             here == IF Contains(NameList[i], needle) THEN <<path>> ELSE <<>>
             below == IF f[c].k = "dir" /\ CanRead(f[c])
                      THEN SearchDir(f, c, path, 1, needle) ELSE <<>>
         IN IF c \notin DOMAIN f THEN SearchDir(f, d, pkey, i + 1, needle)
            ELSE here \o below \o SearchDir(f, d, pkey, i + 1, needle)

search_recursive(f, p, needle) ==
    LET o == IF is_absolute(p) THEN OpenDir(f, p.comps) ELSE Err("ENOENT") IN
    IF o.e = "EACCES" THEN [msg |-> "", lines |-> <<>>]
    ELSE IF o.e # "ok" THEN [msg |-> "Error searching", lines |-> <<>>]
    ELSE [msg |-> "", lines |-> SearchDir(f, o.k, p.comps, 1, needle)]

\* ------------------------------------------------------------------ inputs
\* What the user types at a path prompt: relative names, a relative path of
\* two components, absolute paths; the empty line is EmptyPath.
Inputs ==
    {Rel(<<n>>) : n \in Names}
    \cup {Rel(<<"ab", "b">>), Abs(<<>>), Abs(<<"ab">>)}
SrcInputs == {Rel(<<"ab">>), Rel(<<"b">>), Abs(<<"ab">>), Abs(<<"ab", "b">>)}
DstInputs == {Rel(<<"b">>), Rel(<<"Ab">>), Abs(<<"ab", "b">>)}
Typed(S) == S \cup {EmptyPath}

\* input_path: false on an empty line.
input_path(s) == s # EmptyPath

\* ------------------------------------------------------------ initial state
MkFS(S) ==
    [k \in {e[1] : e \in S} \cup {<<>>} |->
        IF k = <<>> THEN Dir("rwx") ELSE (CHOOSE e \in S : e[1] = k)[2]]

InitFS == {
    \* a plain tree with nested content
    MkFS({ <<<<"ab">>, Dir("rwx")>>, <<<<"ab", "b">>, File(<<1>>)>>,
           <<<<"ab", "Ab">>, Dir("rwx")>>, <<<<"ab", "Ab", "ab">>, File(<<2, 2>>)>>,
           <<<<"b">>, File(<<3>>)>>,
           <<<<"Ab">>, Dir("rwx")>>, <<<<"Ab", "b">>, Dir("rwx")>> }),
    \* symbolic links: to a directory, to a file, dangling
    MkFS({ <<<<"ab">>, Dir("rwx")>>, <<<<"ab", "b">>, File(<<1>>)>>,
           <<<<"ab", "ab">>, Link(<<"ab">>)>>,
           <<<<"b">>, Link(<<"ab", "b">>)>>,
           <<<<"Ab">>, Link(<<"ab", "Ab">>)>> }),
    \* permissions: a locked directory, a read-only directory, links into
    \* the locked directory
    MkFS({ <<<<"ab">>, Dir("---")>>, <<<<"ab", "b">>, File(<<1>>)>>,
           <<<<"ab", "Ab">>, Dir("rwx")>>,
           <<<<"b">>, Dir("r-x")>>, <<<<"b", "ab">>, File(<<2, 2>>)>>,
           <<<<"b", "b">>, Dir("rwx")>>, <<<<"b", "b", "ab">>, Link(<<"ab", "b">>)>>,
           <<<<"Ab">>, Link(<<"ab", "b">>)>> }),
    \* another volume mounted on /Ab
    MkFS({ <<<<"ab">>, Dir("rwx")>>, <<<<"ab", "b">>, File(<<1>>)>>,
           <<<<"Ab">>, Mount("rwx")>>, <<<<"Ab", "b">>, File(<<>>)>> })
}

\* fs::current_path() at launch: an existing, searchable directory in
\* canonical form.
StartDirs(f) ==
    {k \in DOMAIN f : f[k].k = "dir" /\ CanSearch(f[k]) /\ Stat(f, k) = Ok(k)}

\* out: the last command read and what it printed; cwd is the "Current
\* Directory:" header list_dir showed above the prompt.
NoOut == [op |-> "", cwd |-> EmptyPath, a |-> EmptyPath, b |-> EmptyPath,
          needle |-> "", msg |-> "", n |-> 0, lines |-> <<>>]
Cmd(op) == [NoOut EXCEPT !.op = op, !.cwd = cur]

Init ==
    /\ fs \in InitFS
    /\ cur \in {Abs(k) : k \in StartDirs(fs)}
    /\ screen = list_dir(fs, cur)
    /\ out = NoOut
    /\ pc = "loop"
    /\ ops = 0

\* ----------------------------------------------------------------- commands
\* One action is one pass of the loop in main: the command is read and run,
\* and the loop comes back to list_dir(cur) before the next prompt.
Reading == pc = "loop" /\ ops < MaxOps

Back(f, c) == /\ screen' = list_dir(f, c)
              /\ pc' = "loop"
              /\ ops' = ops + 1

\* "1": the listing is shown again.
List ==
    /\ Reading
    /\ out' = Cmd("list")
    /\ UNCHANGED <<fs, cur>>
    /\ Back(fs, cur)

\* "2": enter directory.  exists / is_directory / canonical are the throwing
\* forms and are called outside any handler.
EnterDirectory(inp) ==
    LET cand == Join(cur, inp)
        ex == exists(fs, cand.comps)
        o == [Cmd("enter") EXCEPT !.a = inp]
    IN /\ Reading
       /\ UNCHANGED fs
       /\ IF ~input_path(inp)
          THEN /\ cur' = cur
               /\ out' = o
               /\ Back(fs, cur)
          ELSE IF ex.exc
          THEN /\ pc' = "terminated"
               /\ out' = [o EXCEPT !.msg = "terminate called"]
               /\ ops' = ops + 1
               /\ UNCHANGED <<cur, screen>>
          ELSE IF ex.v /\ is_directory(fs, cand.comps).v
          THEN /\ cur' = canonical(fs, cand.comps)
               /\ out' = o
               /\ Back(fs, cur')
          ELSE /\ cur' = cur
               /\ out' = [o EXCEPT !.msg = "Not a directory."]
               /\ Back(fs, cur)

\* "3": go up.
GoUp ==
    /\ Reading
    /\ cur' = IF has_parent_path(cur) THEN parent_path(cur) ELSE cur
    /\ out' = Cmd("up")
    /\ UNCHANGED fs
    /\ Back(fs, cur')

\* "0" (which says goodbye) or end of input (which says nothing): the loop
\* ends, exit code 0.
Exit ==
    /\ Reading
    /\ pc' = "exited"
    /\ \E said \in {"Goodbye!", ""} : out' = [Cmd("exit") EXCEPT !.msg = said]
    /\ ops' = ops + 1
    /\ UNCHANGED <<fs, cur, screen>>

\* Any other choice.
Invalid ==
    /\ Reading
    /\ out' = [Cmd("invalid") EXCEPT !.msg = "Invalid choice."]
    /\ UNCHANGED <<fs, cur>>
    /\ Back(fs, cur)

\* "4": create file.
CreateFile(inp) ==
    LET p == Join(cur, inp)
        r == IF input_path(inp) THEN create_file(fs, p.comps) ELSE Rep(fs, "", 0)
    IN /\ Reading
       /\ fs' = r.fs
       /\ out' = [Cmd("mkfile") EXCEPT !.a = inp, !.msg = r.msg]
       /\ UNCHANGED cur
       /\ Back(fs', cur)

\* "5": create directory.
CreateDirectory(inp) ==
    LET p == Join(cur, inp)
        r == IF input_path(inp) THEN create_directory_path(fs, p.comps) ELSE Rep(fs, "", 0)
    IN /\ Reading
       /\ fs' = r.fs
       /\ out' = [Cmd("mkdir") EXCEPT !.a = inp, !.msg = r.msg]
       /\ UNCHANGED cur
       /\ Back(fs', cur)

\* "6": delete file / directory.
Delete(inp) ==
    LET p == Join(cur, inp) IN
    /\ Reading
    /\ \E r \in IF input_path(inp) THEN delete_path(fs, p.comps) ELSE {Rep(fs, "", 0)} :
          /\ fs' = r.fs
          /\ out' = [Cmd("delete") EXCEPT !.a = inp, !.msg = r.msg, !.n = r.n]
    /\ UNCHANGED cur
    /\ Back(fs', cur)

\* "7": copy file / directory.
CopyCmd(a, b) ==
    LET src == Join(cur, a)
        dst == Join(cur, b)
    IN /\ Reading
       /\ \E r \in IF input_path(a) /\ input_path(b)
                   THEN copy_path(fs, src.comps, dst.comps) ELSE {Rep(fs, "", 0)} :
             /\ fs' = r.fs
             /\ out' = [Cmd("copy") EXCEPT !.a = a, !.b = b, !.msg = r.msg]
       /\ UNCHANGED cur
       /\ Back(fs', cur)

\* "8": move / rename.
MoveCmd(a, b) ==
    LET src == Join(cur, a)
        dst == Join(cur, b)
        r == IF input_path(a) /\ input_path(b)
             THEN move_path(fs, src.comps, dst.comps) ELSE Rep(fs, "", 0)
    IN /\ Reading
       /\ fs' = r.fs
       /\ out' = [Cmd("move") EXCEPT !.a = a, !.b = b, !.msg = r.msg]
       /\ UNCHANGED cur
       /\ Back(fs', cur)

\* "9": search by name; an empty needle is not searched.
Search(needle) ==
    LET r == search_recursive(fs, cur, needle) IN
    /\ Reading
    /\ out' = IF needle = "" THEN Cmd("search")
              ELSE [Cmd("search") EXCEPT !.needle = needle,
                                         !.msg = r.msg, !.lines = r.lines]
    /\ UNCHANGED <<fs, cur>>
    /\ Back(fs, cur)

\* The second prompt is shown only after a non-empty first answer.
Pairs ==
    {<<a, b>> : a \in SrcInputs, b \in Typed(DstInputs)} \cup {<<EmptyPath, EmptyPath>>}

Next ==
    \/ List
    \/ \E inp \in Typed(Inputs) : EnterDirectory(inp)
    \/ GoUp
    \/ \E inp \in Typed(Inputs) : CreateFile(inp)
    \/ \E inp \in Typed(Inputs) : CreateDirectory(inp)
    \/ \E inp \in Typed(Inputs) : Delete(inp)
    \/ \E ab \in Pairs : CopyCmd(ab[1], ab[2])
    \/ \E ab \in Pairs : MoveCmd(ab[1], ab[2])
    \/ \E needle \in Needles \cup {""} : Search(needle)
    \/ Exit
    \/ Invalid

Spec == Init /\ [][Next]_vars

\* Every entry lies within the path-length limit and below a directory.
TypeOK ==
    /\ \A k \in DOMAIN fs : Len(k) <= MaxDepth
    /\ \A k \in DOMAIN fs : k # <<>> => Node(fs, Front(k)).k = "dir"
    /\ fs[<<>>].k = "dir"
    /\ pc \in {"loop", "terminated", "exited"}

\* ================================================================== claims
\* A step of the loop that ran command op.
Step(op) == ops' = ops + 1 /\ out'.op = op

\* What a path names when permissions are left aside: the file system's own
\* answer, which a denied query cannot give.
Unlocked(f) ==
    [k \in DOMAIN f |-> IF f[k].k = "dir" THEN [f[k] EXCEPT !.m = "rwx"] ELSE f[k]]
TrueStat(f, k) == Stat(Unlocked(f), k)
TrueLStat(f, k) == LStat(Unlocked(f), k)

\* ---------------------------------------------------------------------- C1
\* C1: no file-system failure met by any command ends the session as an
\* unhandled fault; the loop always goes on to read the next command.
C1_NoUnhandledFault == pc # "terminated"

\* "2" was answered with a path below a directory that denies search: the
\* status query threw and the session is over.
C1_Witness ==
    /\ pc = "terminated" /\ out.op = "enter"
    /\ status(fs, Join(out.cwd, out.a).comps).exc

\* ---------------------------------------------------------------------- C2
\* The candidate is a regular file or does not exist.
NotAnExistingDirectory(f, k) ==
    LET r == TrueStat(f, k) IN
    (r.e = "ok" /\ f[r.k].k = "file") \/ NotFound(r.e)

\* C2: enterDirectory on a non-empty input that resolves to a path that is
\* not an existing directory leaves CurrentDirectory unchanged and reports
\* "Not a directory"; CurrentDirectory changes only when the candidate exists
\* and is a directory.
C2_EnterNonDirectory ==
    [][ Step("enter") /\ input_path(out'.a) =>
          LET k == Join(cur, out'.a).comps IN
          /\ NotAnExistingDirectory(fs, k) =>
                cur' = cur /\ out'.msg = "Not a directory." /\ pc' = "loop"
          /\ cur' # cur =>
                TrueStat(fs, k).e = "ok" /\ fs[TrueStat(fs, k).k].k = "dir" ]_vars

\* The candidate was a regular file, reached through a symbolic link into a
\* directory that denies search: the session ended instead of reporting
\* "Not a directory".
C2_Witness ==
    /\ out.op = "enter" /\ input_path(out.a) /\ out.msg # "Not a directory."
    /\ LET r == TrueStat(fs, Join(out.cwd, out.a).comps) IN
          r.e = "ok" /\ fs[r.k].k = "file"

\* The same statement for the candidates whose status query answers (no
\* error is thrown): there the frame holds.
C2_WhenStatusKnown ==
    [][ Step("enter") /\ input_path(out'.a) =>
          LET k == Join(cur, out'.a).comps IN
          /\ (~status(fs, k).exc /\ NotAnExistingDirectory(fs, k)) =>
                cur' = cur /\ out'.msg = "Not a directory." /\ pc' = "loop"
          /\ cur' # cur =>
                TrueStat(fs, k).e = "ok" /\ fs[TrueStat(fs, k).k].k = "dir" ]_vars

\* ---------------------------------------------------------------------- C4
IsRoot(p) == p.root /\ p.comps = <<>>

\* C4: goUp at a file-system root leaves CurrentDirectory at that root and
\* reports no error; CurrentDirectory is never empty and always absolute,
\* however often goUp is applied.
C4_GoUp ==
    /\ cur # EmptyPath
    /\ is_absolute(cur)
    /\ (out.op = "up" /\ IsRoot(out.cwd)) =>
          cur = out.cwd /\ out.msg = "" /\ pc = "loop"
    /\ (out.op = "up" /\ ~IsRoot(out.cwd)) =>
          cur = Abs(Front(out.cwd.comps))

C4_Witness == out.op = "up" /\ IsRoot(out.cwd) /\ IsRoot(cur) /\ ops = MaxOps

\* ---------------------------------------------------------------------- C7
\* The entries below root that a walk can reach: every directory between
\* root and the entry is a real (not linked), readable directory.
Reachable(f, r) ==
    {k \in DOMAIN f :
        /\ IsPrefix(r, k) /\ k # r
        /\ \A j \in Len(r)..(Len(k) - 1) :
              f[SubSeq(k, 1, j)].k = "dir" /\ CanRead(f[SubSeq(k, 1, j)])}

Expected(f, p, needle) ==
    LET r == Stat(f, p.comps) IN
    IF r.e # "ok" \/ Node(f, r.k).k # "dir" THEN {}
    ELSE {p.comps \o SubSeq(k, Len(r.k) + 1, Len(k)) :
             k \in {x \in Reachable(f, r.k) : Contains(Last(x), needle)}}

\* C7: searchByName with a non-empty needle prints exactly the paths of the
\* entries below root whose final component contains needle (case-sensitive
\* substring), each once; the content of a permission-denied directory is
\* skipped and the rest is still searched.
C7_SearchExact ==
    (out.op = "search" /\ out.needle # "") =>
        /\ {out.lines[i] : i \in 1..Len(out.lines)} = Expected(fs, cur, out.needle)
        /\ Len(out.lines) = Cardinality(Expected(fs, cur, out.needle))

C7_Witness ==
    /\ out.op = "search" /\ out.needle = "b" /\ IsRoot(cur)
    /\ Node(fs, <<"ab">>).k = "dir" /\ ~CanRead(fs[<<"ab">>])
    /\ <<"ab", "b">> \in DOMAIN fs
    /\ \E i \in 1..Len(out.lines) : out.lines[i] = <<"b", "b">>
    /\ \A i \in 1..Len(out.lines) : out.lines[i] # <<"ab", "b">>

\* --------------------------------------------------------------------- C10
\* C10: every listed child has exactly one kind; a child that is a symbolic
\* link is listed as [LNK] whatever its target, and only directories that
\* are not links are listed as [DIR].
C10_SymlinkListedAsLink ==
    \A i \in 1..Len(screen.rows) :
        LET c == Append(Stat(fs, cur.comps).k, screen.rows[i].name) IN
        /\ screen.rows[i].type \in {"[DIR]", "[LNK]", "[FILE]"}
        /\ fs[c].k = "link" <=> screen.rows[i].type = "[LNK]"
        /\ screen.rows[i].type = "[DIR]" => fs[c].k = "dir"

\* A symbolic link to a directory is on the screen as [DIR].
C10_Witness ==
    \E i \in 1..Len(screen.rows) :
        /\ screen.rows[i].type = "[DIR]"
        /\ fs[Append(Stat(fs, cur.comps).k, screen.rows[i].name)].k = "link"

\* ---------------------------------------------------------------------- C3
\* C is canonical: it resolves to itself and is a directory.
Canonical(f, p) ==
    is_absolute(p) /\ Stat(f, p.comps) = Ok(p.comps) /\ f[p.comps].k = "dir"

Child(p, n) == Append(p.comps, n)
OneName(p) == ~is_absolute(p) /\ Len(p.comps) = 1

\* goUp as the loop applies it.
Up(p) == IF has_parent_path(p) THEN parent_path(p) ELSE p

RealDir(f, k) == LET r == TrueLStat(f, k) IN r.e = "ok" /\ f[r.k].k = "dir"
Absent(f, k) == NotFound(TrueStat(f, k).e)

FilesAndDirs(f, d) == Cardinality({k \in Subtree(f, d) : f[k].k \in {"file", "dir"}})

Listed(f, p, name) ==
    LET l == list_dir(f, p) IN \E i \in 1..Len(l.rows) : l.rows[i].name = name

\* C5 as stated: deleting an existing directory reports a count of at least
\* its files, its subdirectories and itself, after which the parent's
\* listing has no entry of its name; deleting a path that does not exist
\* reports "does not exist" and removes nothing.
C5_Original ==
    [][ Step("delete") /\ input_path(out'.a) =>
          LET p == Join(cur, out'.a) IN
          /\ (p.comps # <<>> /\ RealDir(fs, p.comps)) =>
                /\ out'.msg = "Deleted entries"
                /\ out'.n >= FilesAndDirs(fs, TrueLStat(fs, p.comps).k)
                /\ ~Listed(fs', parent_path(p), filename(p))
          /\ Absent(fs, p.comps) =>
                out'.msg = "Path does not exist." /\ fs' = fs ]_vars

\* C5 amended: the count is reported unless the file system raises an error
\* (permission denied, busy mount point), which is reported instead.
C5_DeleteCount ==
    [][ Step("delete") /\ input_path(out'.a) =>
          LET p == Join(cur, out'.a) IN
          /\ (p.comps # <<>> /\ RealDir(fs, p.comps)) =>
                /\ out'.msg \in {"Deleted entries", "Error"}
                /\ out'.msg = "Deleted entries" =>
                      /\ out'.n >= FilesAndDirs(fs, TrueLStat(fs, p.comps).k)
                      /\ ~Listed(fs', parent_path(p), filename(p))
                      /\ Subtree(fs', TrueLStat(fs, p.comps).k) = {}
          /\ Absent(fs, p.comps) =>
                /\ out'.msg \in {"Path does not exist.", "Error"}
                /\ fs' = fs
          /\ (~exists(fs, p.comps).exc /\ ~exists(fs, p.comps).v) =>
                out'.msg = "Path does not exist." /\ fs' = fs ]_vars

\* A directory holding a file and a subdirectory with a file was deleted.
C5_Witness ==
    /\ out.op = "delete" /\ out.msg = "Deleted entries" /\ out.n >= 4
    /\ out.a = Rel(<<"ab">>) /\ IsRoot(out.cwd) /\ <<"ab">> \notin DOMAIN fs

\* ---------------------------------------------------------------------- C9
\* The entry a rename names: its parent resolved, its last component kept.
Entry(f, k) == Append(Stat(f, Front(k)).k, Last(k))

\* The subtree below k, by relative path.
RelTree(f, k) ==
    [r \in {SubSeq(x, Len(k) + 1, Len(x)) : x \in Subtree(f, k)} |-> f[k \o r]]

\* C9 as stated: movePath either succeeds (dst holds what src held, src no
\* longer exists, the destination is reported) or fails (an error is
\* reported, src is intact); nothing is lost or partly moved.
C9_Original ==
    [][ Step("move") /\ input_path(out'.a) /\ input_path(out'.b) =>
          LET from == Join(cur, out'.a).comps
              to == Join(cur, out'.b).comps
          IN \/ out'.msg = "Error" /\ fs' = fs
             \/ /\ out'.msg = "Moved/Renamed to"
                /\ from # <<>> /\ to # <<>>
                /\ Entry(fs, from) \in DOMAIN fs
                /\ RelTree(fs', Entry(fs, to)) = RelTree(fs, Entry(fs, from))
                /\ Entry(fs, from) \notin DOMAIN fs'
                /\ LStat(fs', from).e = "ENOENT" ]_vars

\* C9 amended: when src and dst name the same entry the move succeeds and
\* changes nothing, so src still exists.
C9_MoveAtomic ==
    [][ Step("move") /\ input_path(out'.a) /\ input_path(out'.b) =>
          LET from == Join(cur, out'.a).comps
              to == Join(cur, out'.b).comps
          IN \/ out'.msg = "Error" /\ fs' = fs
             \/ /\ out'.msg = "Moved/Renamed to"
                /\ from # <<>> /\ to # <<>>
                /\ Entry(fs, from) \in DOMAIN fs
                /\ RelTree(fs', Entry(fs, to)) = RelTree(fs, Entry(fs, from))
                /\ IF Entry(fs, from) = Entry(fs, to) THEN fs' = fs
                   ELSE /\ Entry(fs, from) \notin DOMAIN fs'
                        /\ LStat(fs', from).e = "ENOENT" ]_vars

\* A directory with its content was moved to a new name.
C9_Witness ==
    /\ out.op = "move" /\ out.msg = "Moved/Renamed to"
    /\ out.a = Rel(<<"ab">>) /\ out.b = Rel(<<"b">>) /\ IsRoot(out.cwd)
    /\ <<"ab">> \notin DOMAIN fs
    /\ Node(fs, <<"b">>).k = "dir" /\ Node(fs, <<"b", "b">>).k = "file"

\* ---------------------------------------------------------------------- C6
\* dst in g holds what src holds in f: the same kind, the same content for a
\* file, the same names with the same property for a directory.
RECURSIVE SameTree(_, _, _, _)
SameTree(f, src, g, dst) ==
    LET s == Stat(f, src)
        t == Stat(g, dst)
    IN /\ s.e = "ok" /\ t.e = "ok"
       /\ f[s.k].k = g[t.k].k
       /\ f[s.k].k = "file" => f[s.k].c = g[t.k].c
       /\ f[s.k].k = "dir" =>
             \A c \in Children(f, s.k) :
                 SameTree(f, Append(src, Last(c)), g, Append(dst, Last(c)))

\* Nothing at or below the resolved source changed.
SrcUnchanged(f, g, k) ==
    Subtree(g, k) = Subtree(f, k) /\ \A x \in Subtree(f, k) : g[x] = f[x]

\* C6 as stated: after a successful copyPath, a file src has an equal
\* regular file at dst (an existing one is overwritten), a directory src has
\* its relative tree and contents at dst, and src is unchanged; a missing
\* src is reported as not found and nothing is created.
C6_Original ==
    [][ Step("copy") /\ input_path(out'.a) /\ input_path(out'.b) =>
          LET from == Join(cur, out'.a).comps
              to == Join(cur, out'.b).comps
              s == Stat(fs, from)
          IN /\ out'.msg = "Copied to" =>
                   /\ s.e = "ok"
                   /\ SameTree(fs, from, fs', to)
                   /\ SrcUnchanged(fs, fs', s.k)
                   /\ fs[s.k].k = "file" => fs'[Stat(fs', to).k].k = "file"
             /\ Absent(fs, from) =>
                   out'.msg = "Source does not exist." /\ fs' = fs ]_vars

\* Directory ab was copied onto directory Ab, which held a directory b: the
\* copy reported success, Ab/b is still a directory and the file ab/b is at
\* Ab/b/b.
C6_Witness ==
    /\ out.op = "copy" /\ out.msg = "Copied to"
    /\ out.a = Rel(<<"ab">>) /\ out.b = Rel(<<"Ab">>) /\ IsRoot(out.cwd)
    /\ Node(fs, <<"ab", "b">>) = File(<<1>>)
    /\ Node(fs, <<"Ab", "b">>).k = "dir"
    /\ Node(fs, <<"Ab", "b", "b">>) = File(<<1>>)

\* The same statement where nothing existed at dst before the copy, and
\* with a failing existence query reported as an error: there it holds.
C6_WhenDstIsNew ==
    [][ Step("copy") /\ input_path(out'.a) /\ input_path(out'.b) =>
          LET from == Join(cur, out'.a).comps
              to == Join(cur, out'.b).comps
              s == Stat(fs, from)
          IN /\ out'.msg = "Copied to" =>
                   /\ s.e = "ok"
                   /\ fs[s.k].k = "file" =>
                         /\ SameTree(fs, from, fs', to)
                         /\ fs'[Stat(fs', to).k].k = "file"
                         /\ SrcUnchanged(fs, fs', s.k)
                   /\ (fs[s.k].k = "dir" /\ LStat(fs, to).e = "ENOENT") =>
                         /\ SameTree(fs, from, fs', to)
                         /\ SrcUnchanged(fs, fs', s.k)
             /\ Absent(fs, from) =>
                   /\ out'.msg \in {"Source does not exist.", "Error"}
                   /\ fs' = fs
             /\ (~exists(fs, from).exc /\ ~exists(fs, from).v) =>
                   out'.msg = "Source does not exist." /\ fs' = fs ]_vars

\* ---------------------------------------------------------------------- C8
HasFileRow(f, p) ==
    LET l == list_dir(f, parent_path(p)) IN
    \E i \in 1..Len(l.rows) :
        l.rows[i] = [type |-> "[FILE]", size |-> 0, name |-> filename(p)]

ParentMissing(f, p) == p.comps # <<>> /\ Absent(f, Front(p.comps))

====
